---- MODULE Spec2Model ----
(***************************************************************************)
(* State-machine model of the ShoppingCart class (src/ShoppingCart.js).    *)
(*                                                                         *)
(* Numbers.  A JavaScript number is modelled as a record                   *)
(*     [nan |-> BOOLEAN, hi |-> Int, lo |-> Int]                           *)
(* whose value is (hi * 10^19 + lo) / Scale, or NaN when nan is TRUE.      *)
(* lo carries ordinary amounts in units of 1/Scale (1/10000); hi carries   *)
(* amounts of the order of 10^21, where a double no longer has room for a  *)
(* small addend: a number with hi # 0 absorbs its lo part (Norm).          *)
(* Arithmetic on the values the model draws is exact decimal arithmetic.   *)
(*                                                                         *)
(* Strings are sequences of one-character strings.  A JavaScript value     *)
(* handed to a method is a record [t, s, n]: its typeof tag, its string    *)
(* content and its numeric content.                                        *)
(*                                                                         *)
(* call is the last call made on the cart, with its arguments and how it   *)
(* ended; returned is what the last query handed to its caller.            *)
(***************************************************************************)
EXTENDS Integers, Sequences, FiniteSets, TLC

VARIABLES items, appliedDiscount, call, returned

vars == <<items, appliedDiscount, call, returned>>

(***************************************************************************)
(* Bounds of the model.                                                    *)
(***************************************************************************)
\* Largest ordinary stored quantity the model lets a line item reach.
MaxQty == 2
\* Largest multiple of 10^21 the model lets a stored quantity reach.
MaxBig == 1

(***************************************************************************)
(* Numbers.                                                                *)
(***************************************************************************)
Scale == 10000
\* hi is counted in units of 10^19 / Scale, so 10^21 is hi = 100 * Scale.
HiPerE21 == 100 * Scale

Norm(x) ==
    IF x.nan THEN [nan |-> TRUE, hi |-> 0, lo |-> 0]
    ELSE IF x.hi # 0 THEN [nan |-> FALSE, hi |-> x.hi, lo |-> 0]
    ELSE x

Num(units) == [nan |-> FALSE, hi |-> 0, lo |-> units]
Int2Num(i) == Num(i * Scale)
E21(k) == [nan |-> FALSE, hi |-> k * HiPerE21, lo |-> 0]
NaN == [nan |-> TRUE, hi |-> 0, lo |-> 0]
Zero == Num(0)

Add(a, b) ==
    IF a.nan \/ b.nan THEN NaN
    ELSE Norm([nan |-> FALSE, hi |-> a.hi + b.hi, lo |-> a.lo + b.lo])

Sub(a, b) ==
    IF a.nan \/ b.nan THEN NaN
    ELSE Norm([nan |-> FALSE, hi |-> a.hi - b.hi, lo |-> a.lo - b.lo])

\* a * b.  The lo part is (a.lo * b.lo) / Scale, taken in two pieces, the
\* whole units of a and its fraction, so that amounts of some thousands stay
\* within the integers of the checker.
Mul(a, b) ==
    IF a.nan \/ b.nan THEN NaN
    ELSE Norm([nan |-> FALSE,
               hi  |-> (a.hi * b.lo + a.lo * b.hi) \div Scale,
               lo  |-> (a.lo \div Scale) * b.lo
                           + ((a.lo % Scale) * b.lo) \div Scale])

\* a < b, a <= b, a > b on JavaScript numbers: every comparison with NaN is false.
Less(a, b) ==
    /\ ~a.nan
    /\ ~b.nan
    /\ \/ a.hi < b.hi
       \/ a.hi = b.hi /\ a.lo < b.lo

LessEq(a, b) == ~a.nan /\ ~b.nan /\ (Less(a, b) \/ a = b)

Greater(a, b) == Less(b, a)

\* Number.isInteger(x)
IsInteger(x) == ~x.nan /\ x.lo % Scale = 0

\* Math.round(x * 100) / 100: Math.round rounds a tie towards +Infinity.
Round2(x) ==
    IF x.nan THEN NaN
    ELSE IF x.hi # 0 THEN x
    ELSE Num(((x.lo + 50) \div 100) * 100)

(***************************************************************************)
(* JavaScript values passed as arguments.                                  *)
(***************************************************************************)
Str(s) == [t |-> "string", s |-> s, n |-> Zero]
NumV(x) == [t |-> "number", s |-> <<>>, n |-> x]
Undefined == [t |-> "undefined", s |-> <<>>, n |-> Zero]

\* !v : "", 0, NaN and undefined are falsy.
Falsy(v) ==
    \/ v.t = "undefined"
    \/ v.t = "string" /\ v.s = <<>>
    \/ v.t = "number" /\ (v.n.nan \/ v.n = Zero)

\* String(x), as parseInt and parseFloat apply it to a number argument:
\* "NaN", a plain decimal "<int>.<frac>" below 10^21, and the exponent form
\* "<int>e+21" from 10^21 on.
NumberToString(x) ==
    IF x.nan THEN [isNaN |-> TRUE, neg |-> FALSE, int |-> 0, frac |-> 0, exp |-> 0]
    ELSE IF x.hi # 0
    THEN [isNaN |-> FALSE, neg |-> x.hi < 0,
          int |-> (IF x.hi < 0 THEN -x.hi ELSE x.hi) \div HiPerE21,
          frac |-> 0, exp |-> 21]
    ELSE LET a == IF x.lo < 0 THEN -x.lo ELSE x.lo
         IN  [isNaN |-> FALSE, neg |-> x.lo < 0,
              int |-> a \div Scale, frac |-> a % Scale, exp |-> 0]

\* parseInt reads the leading run of digits and stops at "." or "e".
parseInt(x) ==
    LET str == NumberToString(x)
    IN  IF str.isNaN THEN NaN
        ELSE Int2Num(IF str.neg THEN -str.int ELSE str.int)

\* parseFloat reads the whole decimal literal, exponent included.
parseFloat(x) ==
    LET str == NumberToString(x)
        sgn == IF str.neg THEN -1 ELSE 1
    IN  IF str.isNaN THEN NaN
        ELSE IF str.exp = 21 THEN E21(sgn * str.int)
        ELSE Num(sgn * (str.int * Scale + str.frac))

\* the characters of a non-negative integer
DigitChar(d) == <<"0", "1", "2", "3", "4", "5", "6", "7", "8", "9">>[d + 1]

RECURSIVE Digits(_)
Digits(n) ==
    IF n < 10 THEN <<DigitChar(n)>>
    ELSE Digits(n \div 10) \o <<DigitChar(n % 10)>>

SignChars(neg) == IF neg THEN <<"-">> ELSE <<>>

RECURSIVE DropTrailingZeros(_)
DropTrailingZeros(s) ==
    IF s # <<>> /\ s[Len(s)] = "0"
    THEN DropTrailingZeros(SubSeq(s, 1, Len(s) - 1))
    ELSE s

\* `${x}` of a number x: the characters of String(x); the fraction is written
\* without trailing zeros and left out when it is zero.
StringOf(x) ==
    LET str == NumberToString(x)
    IN  IF str.isNaN THEN <<"N", "a", "N">>
        ELSE IF str.exp = 21
        THEN SignChars(str.neg) \o Digits(str.int) \o <<"e", "+", "2", "1">>
        ELSE SignChars(str.neg) \o Digits(str.int)
             \o (IF str.frac = 0 THEN <<>>
                 ELSE <<".">> \o DropTrailingZeros(Tail(Digits(Scale + str.frac))))

\* x.toFixed(2): "NaN" for NaN, String(x) from 10^21 on, else the sign, the
\* integer digits, a point and exactly two decimals, the absolute value
\* rounded to the nearest cent with a half going up.  A value carried in hi
\* is a whole multiple of 10^15.
toFixed(x) ==
    IF x.nan THEN <<"N", "a", "N">>
    ELSE IF x.hi # 0
    THEN IF x.hi >= HiPerE21 \/ x.hi <= -HiPerE21 THEN StringOf(x)
         ELSE SignChars(x.hi < 0)
              \o Digits(IF x.hi < 0 THEN -x.hi ELSE x.hi)
              \o [i \in 1..15 |-> "0"] \o <<".", "0", "0">>
    ELSE LET a == IF x.lo < 0 THEN -x.lo ELSE x.lo
             n == (a + Scale \div 200) \div (Scale \div 100)
         IN  SignChars(x.lo < 0) \o Digits(n \div 100)
             \o <<".", DigitChar((n % 100) \div 10), DigitChar(n % 10)>>

(***************************************************************************)
(* Constants of the class.                                                 *)
(***************************************************************************)
\* static TAX_RATE = 0.10
TAX_RATE == Num(1000)

SAVE10 == <<"S", "A", "V", "E", "1", "0">>
SAVE20 == <<"S", "A", "V", "E", "2", "0">>

\* static DISCOUNT_CODES = { 'SAVE10': 0.10, 'SAVE20': 0.20 }
DISCOUNT_CODES == (SAVE10 :> Num(1000)) @@ (SAVE20 :> Num(2000))

(***************************************************************************)
(* The item map.  A Map keeps insertion order: a sequence of entries       *)
(* [product, price, quantity] with pairwise distinct products.             *)
(***************************************************************************)
\* this.#items.has(product)
Has(its, product) == \E i \in 1..Len(its) : its[i].product = product

IndexOf(its, product) == CHOOSE i \in 1..Len(its) : its[i].product = product

\* this.#items.get(product)
Get(its, product) == its[IndexOf(its, product)]

\* delete as it would be if it dropped the oldest entry.
Delete_Oldest(its, product) == Tail(its)

\* this.#items.delete(product)
Delete(its, product) ==
    LET k == IndexOf(its, product)
    IN  [i \in 1..(Len(its) - 1) |-> IF i < k THEN its[i] ELSE its[i + 1]]

Cart(its, disc) == [items |-> its, appliedDiscount |-> disc]

Result(cart, ret) == [cart |-> cart, ret |-> ret]

(***************************************************************************)
(* #validateInputs(product, price, quantity)                               *)
(***************************************************************************)
\* #validateInputs as it would be without the test price < 0.
validateInputs_AnyPrice(product, price, quantity) ==
    IF Falsy(product) \/ product.t # "string" THEN FALSE
    ELSE IF price.t # "number" THEN FALSE
    ELSE IF quantity.t # "number" \/ ~IsInteger(quantity.n)
            \/ LessEq(quantity.n, Zero) THEN FALSE
    ELSE TRUE

validateInputs(product, price, quantity) ==
    IF Falsy(product) \/ product.t # "string" THEN FALSE
    ELSE IF price.t # "number" \/ Less(price.n, Zero) THEN FALSE
    ELSE IF quantity.t # "number" \/ ~IsInteger(quantity.n)
            \/ LessEq(quantity.n, Zero) THEN FALSE
    ELSE TRUE

(***************************************************************************)
(* addItem(product, price, quantity = 1)                                   *)
(***************************************************************************)
\* The default parameter value replaces an argument that is undefined.
DefaultQuantity(quantity) ==
    IF quantity.t = "undefined" THEN NumV(Int2Num(1)) ELSE quantity

\* addItem as it would be if an existing entry took the price of the call.
addItem_LastWriteWins(cart, product, price, quantityArg) ==
    LET quantity == DefaultQuantity(quantityArg)
        its == cart.items
    IN  IF ~validateInputs(product, price, quantity)
        THEN Result(cart, "false")
        ELSE IF Has(its, product.s)
        THEN LET k == IndexOf(its, product.s)
             IN  Result(Cart([its EXCEPT ![k].quantity = Add(@, quantity.n),
                                         ![k].price = parseFloat(price.n)],
                             cart.appliedDiscount), "true")
        ELSE Result(Cart(Append(its, [product  |-> product.s,
                                      price    |-> parseFloat(price.n),
                                      quantity |-> parseInt(quantity.n)]),
                         cart.appliedDiscount), "true")

\* addItem as it would be if an existing entry moved to the end of the map
\* when its quantity grows.
addItem_MovesToEnd(cart, product, price, quantityArg) ==
    LET quantity == DefaultQuantity(quantityArg)
        its == cart.items
    IN  IF ~validateInputs(product, price, quantity)
        THEN Result(cart, "false")
        ELSE IF Has(its, product.s)
        THEN LET k == IndexOf(its, product.s)
             IN  Result(Cart(Append(SubSeq(its, 1, k - 1)
                                        \o SubSeq(its, k + 1, Len(its)),
                                    [its[k] EXCEPT
                                        !.quantity = Add(@, quantity.n)]),
                             cart.appliedDiscount), "true")
        ELSE Result(Cart(Append(its, [product  |-> product.s,
                                      price    |-> parseFloat(price.n),
                                      quantity |-> parseInt(quantity.n)]),
                         cart.appliedDiscount), "true")

addItem(cart, product, price, quantityArg) ==
    LET quantity == DefaultQuantity(quantityArg)
        its == cart.items
    IN  IF ~validateInputs(product, price, quantity)
        THEN Result(cart, "false")
        ELSE IF Has(its, product.s)
        THEN LET k == IndexOf(its, product.s)
             IN  Result(Cart([its EXCEPT ![k].quantity = Add(@, quantity.n)],
                             cart.appliedDiscount), "true")
        ELSE Result(Cart(Append(its, [product  |-> product.s,
                                      price    |-> parseFloat(price.n),
                                      quantity |-> parseInt(quantity.n)]),
                         cart.appliedDiscount), "true")

(***************************************************************************)
(* removeItem(product)                                                     *)
(***************************************************************************)
\* removeItem as it would be if deleting an entry also dropped the discount.
removeItem_ClearsDiscount(cart, product) ==
    IF Falsy(product) \/ product.t # "string" THEN Result(cart, "false")
    ELSE IF ~Has(cart.items, product.s) THEN Result(cart, "false")
    ELSE Result(Cart(Delete(cart.items, product.s), Zero), "true")

removeItem(cart, product) ==
    IF Falsy(product) \/ product.t # "string" THEN Result(cart, "false")
    ELSE IF ~Has(cart.items, product.s) THEN Result(cart, "false")
    ELSE Result(Cart(Delete(cart.items, product.s), cart.appliedDiscount), "true")

(***************************************************************************)
(* updateQuantity(product, quantity)                                       *)
(***************************************************************************)
\* updateQuantity as it would be if it added to the stored quantity.
updateQuantity_Increments(cart, product, quantity) ==
    IF Falsy(product) \/ product.t # "string" THEN Result(cart, "false")
    ELSE IF ~Has(cart.items, product.s) THEN Result(cart, "false")
    ELSE IF quantity.t # "number" \/ ~IsInteger(quantity.n)
            \/ LessEq(quantity.n, Zero) THEN Result(cart, "false")
    ELSE LET k == IndexOf(cart.items, product.s)
         IN  Result(Cart([cart.items EXCEPT ![k].quantity = Add(@, quantity.n)],
                         cart.appliedDiscount), "true")

\* updateQuantity as it would be without the test that the product exists:
\* the call succeeds and changes nothing when the product is absent.
updateQuantity_IgnoresMissing(cart, product, quantity) ==
    IF Falsy(product) \/ product.t # "string" THEN Result(cart, "false")
    ELSE IF quantity.t # "number" \/ ~IsInteger(quantity.n)
            \/ LessEq(quantity.n, Zero) THEN Result(cart, "false")
    ELSE IF ~Has(cart.items, product.s) THEN Result(cart, "true")
    ELSE LET k == IndexOf(cart.items, product.s)
         IN  Result(Cart([cart.items EXCEPT ![k].quantity = quantity.n],
                         cart.appliedDiscount), "true")

updateQuantity(cart, product, quantity) ==
    IF Falsy(product) \/ product.t # "string" THEN Result(cart, "false")
    ELSE IF ~Has(cart.items, product.s) THEN Result(cart, "false")
    ELSE IF quantity.t # "number" \/ ~IsInteger(quantity.n)
            \/ LessEq(quantity.n, Zero) THEN Result(cart, "false")
    ELSE LET k == IndexOf(cart.items, product.s)
         IN  Result(Cart([cart.items EXCEPT ![k].quantity = quantity.n],
                         cart.appliedDiscount), "true")

(***************************************************************************)
(* getSubtotal()                                                           *)
(***************************************************************************)
RECURSIVE SumItems(_, _)
\* The loop of getSubtotal: subtotal += item.price * item.quantity, taken
\* over the entries in insertion order (its[1] is added first).
SumItems(its, n) ==
    IF n = 0 THEN Zero
    ELSE Add(SumItems(its, n - 1), Mul(its[n].price, its[n].quantity))

getSubtotal(cart) == Round2(SumItems(cart.items, Len(cart.items)))

(***************************************************************************)
(* applyDiscount(code)                                                     *)
(***************************************************************************)
\* String.prototype.toUpperCase on one character.
UpperChar(c) ==
    CASE c = "s" -> "S"
      [] c = "a" -> "A"
      [] c = "v" -> "V"
      [] c = "e" -> "E"
      [] c = "x" -> "X"
      [] OTHER   -> c

toUpperCase(s) == [i \in 1..Len(s) |-> UpperChar(s[i])]

\* The white space String.prototype.trim strips.
IsWhiteSpace(c) == c \in {" ", "\t", "\n"}

RECURSIVE TrimStart(_)
TrimStart(s) ==
    IF s # <<>> /\ IsWhiteSpace(Head(s)) THEN TrimStart(Tail(s)) ELSE s

RECURSIVE TrimEnd(_)
TrimEnd(s) ==
    IF s # <<>> /\ IsWhiteSpace(s[Len(s)])
    THEN TrimEnd(SubSeq(s, 1, Len(s) - 1))
    ELSE s

\* trim as it would be if it stripped leading white space only.
trim_StartOnly(s) == TrimStart(s)

trim(s) == TrimEnd(TrimStart(s))

\* code.toUpperCase is a function for a string only: on any other value the
\* call code.toUpperCase() ends in a TypeError.
HasToUpperCase(code) == code.t = "string"

\* ShoppingCart.DISCOUNT_CODES.hasOwnProperty(normalizedCode)
IsDiscountCode(normalizedCode) == normalizedCode \in DOMAIN DISCOUNT_CODES

\* applyDiscount as it would be if a new code applied on top of the old
\* discount.
applyDiscount_Stacks(cart, code) ==
    IF Falsy(code) \/ code.t # "string" THEN Result(cart, "false")
    ELSE IF ~HasToUpperCase(code) THEN Result(cart, "TypeError")
    ELSE LET normalizedCode == trim(toUpperCase(code.s))
         IN  IF ~IsDiscountCode(normalizedCode) THEN Result(cart, "false")
             ELSE LET discountPercentage == DISCOUNT_CODES[normalizedCode]
                  IN  Result(Cart(cart.items,
                                  Add(cart.appliedDiscount,
                                      Mul(Sub(getSubtotal(cart),
                                              cart.appliedDiscount),
                                          discountPercentage))),
                             "true")

\* applyDiscount as it would be if a code that is not on the list dropped the
\* discount applied before.
applyDiscount_UnknownCodeResets(cart, code) ==
    IF Falsy(code) \/ code.t # "string" THEN Result(cart, "false")
    ELSE IF ~HasToUpperCase(code) THEN Result(cart, "TypeError")
    ELSE LET normalizedCode == trim(toUpperCase(code.s))
         IN  IF ~IsDiscountCode(normalizedCode)
             THEN Result(Cart(cart.items, Zero), "false")
             ELSE LET discountPercentage == DISCOUNT_CODES[normalizedCode]
                  IN  Result(Cart(cart.items,
                                  Mul(getSubtotal(cart), discountPercentage)),
                             "true")

\* applyDiscount as it would be without the typeof test on the code.
applyDiscount_NoTypeTest(cart, code) ==
    IF Falsy(code) THEN Result(cart, "false")
    ELSE IF ~HasToUpperCase(code) THEN Result(cart, "TypeError")
    ELSE LET normalizedCode == trim(toUpperCase(code.s))
         IN  IF ~IsDiscountCode(normalizedCode) THEN Result(cart, "false")
             ELSE LET discountPercentage == DISCOUNT_CODES[normalizedCode]
                  IN  Result(Cart(cart.items,
                                  Mul(getSubtotal(cart), discountPercentage)),
                             "true")

applyDiscount(cart, code) ==
    IF Falsy(code) \/ code.t # "string" THEN Result(cart, "false")
    ELSE IF ~HasToUpperCase(code) THEN Result(cart, "TypeError")
    ELSE LET normalizedCode == trim(toUpperCase(code.s))
         IN  IF ~IsDiscountCode(normalizedCode) THEN Result(cart, "false")
             ELSE LET discountPercentage == DISCOUNT_CODES[normalizedCode]
                  IN  Result(Cart(cart.items,
                                  Mul(getSubtotal(cart), discountPercentage)),
                             "true")

(***************************************************************************)
(* The queries.                                                            *)
(***************************************************************************)
\* getTotal as it would be if the tax were taken on the subtotal.
getTotal_TaxOnRawSubtotal(cart) ==
    LET subtotal == getSubtotal(cart)
        discountedAmount == Sub(subtotal, cart.appliedDiscount)
        tax == Mul(subtotal, TAX_RATE)
        total == Add(discountedAmount, tax)
    IN  Round2(total)

getTotal(cart) ==
    LET subtotal == getSubtotal(cart)
        discountedAmount == Sub(subtotal, cart.appliedDiscount)
        tax == Mul(discountedAmount, TAX_RATE)
        total == Add(discountedAmount, tax)
    IN  Round2(total)

getDiscount(cart) == Round2(cart.appliedDiscount)

\* getTax as it would be if the tax were taken on the subtotal.
getTax_OnRawSubtotal(cart) ==
    LET tax == Mul(getSubtotal(cart), TAX_RATE)
    IN  Round2(tax)

getTax(cart) ==
    LET discountedAmount == Sub(getSubtotal(cart), cart.appliedDiscount)
        tax == Mul(discountedAmount, TAX_RATE)
    IN  Round2(tax)

getCartItems(cart) ==
    [i \in 1..Len(cart.items) |->
        [product   |-> cart.items[i].product,
         price     |-> cart.items[i].price,
         quantity  |-> cart.items[i].quantity,
         itemTotal |-> Round2(Mul(cart.items[i].price, cart.items[i].quantity))]]

getItemCount(cart) == Len(cart.items)

\* A line of the summary: the template literal it is written with, named by
\* its text, and the strings put into its ${...} places.
Line(template, args) == [template |-> template, args |-> args]

\* getSummary as it would be if the Discount line were written whenever the
\* stored discount amount is above 0.
getSummary_LineForStoredDiscount(cart) ==
    IF getItemCount(cart) = 0 THEN <<Line("Cart is empty", <<>>)>>
    ELSE LET its == getCartItems(cart)
             itemLines ==
                 [i \in 1..Len(its) |->
                     Line("${product}: $${price} x ${quantity} = $${itemTotal}",
                          <<its[i].product, toFixed(its[i].price),
                            StringOf(its[i].quantity),
                            toFixed(its[i].itemTotal)>>)]
         IN  <<Line("=== CART SUMMARY ===", <<>>)>>
             \o itemLines
             \o <<Line("", <<>>),
                  Line("Subtotal: $${subtotal}", <<toFixed(getSubtotal(cart))>>)>>
             \o (IF Greater(cart.appliedDiscount, Zero)
                 THEN <<Line("Discount: -$${discount}",
                             <<toFixed(getDiscount(cart))>>)>>
                 ELSE <<>>)
             \o <<Line("Tax (10%): $${tax}", <<toFixed(getTax(cart))>>),
                  Line("==================", <<>>),
                  Line("TOTAL: $${total}", <<toFixed(getTotal(cart))>>)>>

\* getSummary(): the lines of the string it returns, in order.
getSummary(cart) ==
    IF getItemCount(cart) = 0 THEN <<Line("Cart is empty", <<>>)>>
    ELSE LET its == getCartItems(cart)
             itemLines ==
                 [i \in 1..Len(its) |->
                     Line("${product}: $${price} x ${quantity} = $${itemTotal}",
                          <<its[i].product, toFixed(its[i].price),
                            StringOf(its[i].quantity),
                            toFixed(its[i].itemTotal)>>)]
         IN  <<Line("=== CART SUMMARY ===", <<>>)>>
             \o itemLines
             \o <<Line("", <<>>),
                  Line("Subtotal: $${subtotal}", <<toFixed(getSubtotal(cart))>>)>>
             \o (IF Greater(getDiscount(cart), Zero)
                 THEN <<Line("Discount: -$${discount}",
                             <<toFixed(getDiscount(cart))>>)>>
                 ELSE <<>>)
             \o <<Line("Tax (10%): $${tax}", <<toFixed(getTax(cart))>>),
                  Line("==================", <<>>),
                  Line("TOTAL: $${total}", <<toFixed(getTotal(cart))>>)>>

Queries ==
    {"getSubtotal", "getDiscount", "getTax", "getTotal", "getCartItems",
     "getItemCount", "getSummary"}

\* query as it would be if getDiscount() used the discount up: it reports the
\* amount and resets it.
query_GetDiscountConsumes(cart, method) ==
    Result(IF method = "getDiscount" THEN Cart(cart.items, Zero) ELSE cart,
           CASE method = "getSubtotal"  -> getSubtotal(cart)
             [] method = "getDiscount"  -> getDiscount(cart)
             [] method = "getTax"       -> getTax(cart)
             [] method = "getTotal"     -> getTotal(cart)
             [] method = "getCartItems" -> getCartItems(cart)
             [] method = "getItemCount" -> getItemCount(cart)
             [] method = "getSummary"   -> getSummary(cart))

\* A call of a query method: the cart it leaves and the value it returns.  No
\* query assigns #items, an entry of it or #appliedDiscount.
query(cart, method) ==
    Result(cart,
           CASE method = "getSubtotal"  -> getSubtotal(cart)
             [] method = "getDiscount"  -> getDiscount(cart)
             [] method = "getTax"       -> getTax(cart)
             [] method = "getTotal"     -> getTotal(cart)
             [] method = "getCartItems" -> getCartItems(cart)
             [] method = "getItemCount" -> getItemCount(cart)
             [] method = "getSummary"   -> getSummary(cart))

\* NewObjects as it would be if getCartItems() pushed the details object of
\* each stored entry.
NewObjects_StoredDetails(list) == [i \in 1..Len(list) |-> i]

\* The objects of the array getCartItems() returns: every push makes an
\* object of its own (0); none is the details object that the stored entry
\* i holds (i).

NewObjects(list) == [i \in 1..Len(list) |-> 0]

(***************************************************************************)
(* clearCart()                                                             *)
(***************************************************************************)
\* clearCart as it would be if it emptied the items and kept the discount.
clearCart_KeepsDiscount(cart) ==
    Result(Cart(<<>>, cart.appliedDiscount), "undefined")

\* clearCart as it would be if it kept a discount of less than half a cent,
\* which getDiscount() reports as 0.
clearCart_KeepsSmallDiscount(cart) ==
    Result(Cart(<<>>, IF Round2(cart.appliedDiscount) = Zero
                      THEN cart.appliedDiscount
                      ELSE Zero),
           "undefined")

clearCart(cart) == Result(Cart(<<>>, Zero), "undefined")

(***************************************************************************)
(* Arguments the callers pass.                                             *)
(***************************************************************************)
ProductA == <<"A">>
ProductB == <<"B">>

\* the two product names the callers use
Products == {Str(ProductA), Str(ProductB)}

\* the empty string and a value that is not a string
BadProducts == {Str(<<>>), NumV(Int2Num(1))}

ProductInputs == Products \cup BadProducts

\* -0.034 and the string "1"
BadPrices == {NumV(Num(-340)), Str(<<"1">>)}

\* 1 .. MaxQty
Quantities == {NumV(Int2Num(q)) : q \in 1..MaxQty}

\* 10^21, an integer that String() writes in exponent form
Big == NumV(E21(1))

\* 0, -1, 1.5 and NaN
BadQuantities ==
    {NumV(Zero), NumV(Int2Num(-1)), NumV(Num(15000)), NumV(NaN)}

\* addItem calls that pass #validateInputs: products A and B at the price
\* 0.034 with a quantity in 1 .. MaxQty; product A at the prices 0 and NaN
\* with the quantity 1, with the quantity 10^21 and with the quantity omitted.
GoodAddItemInputs ==
    ({Str(ProductA)} \X {NumV(Num(340))} \X Quantities)
        \cup ({Str(ProductA)} \X {NumV(Zero), NumV(NaN)} \X {NumV(Int2Num(1))})
        \cup ({Str(ProductB)} \X {NumV(Num(340))} \X Quantities)
        \cup {<<Str(ProductA), NumV(Num(340)), Big>>}
        \cup {<<Str(ProductA), NumV(Num(340)), Undefined>>}

\* addItem calls with one offending argument.
BadAddItemInputs ==
    (BadProducts \X {NumV(Num(340))} \X {NumV(Int2Num(1))})
        \cup ({Str(ProductA)} \X BadPrices \X {NumV(Int2Num(1))})
        \cup ({Str(ProductA)} \X {NumV(Num(340))} \X BadQuantities)

AddItemInputs == GoodAddItemInputs \cup BadAddItemInputs

\* updateQuantity calls
UpdateQuantityInputs ==
    (Products \X Quantities)
        \cup {<<Str(ProductA), Big>>}
        \cup (BadProducts \X {NumV(Int2Num(1))})
        \cup ({Str(ProductA)} \X (BadQuantities \cup {Undefined}))

\* the products and prices of the README's Quick Start: 'Laptop' at 999.99
\* and 'Mouse' at 29.99
Laptop == <<"L", "a", "p", "t", "o", "p">>
Mouse == <<"M", "o", "u", "s", "e">>
LaptopPrice == Num(9999900)
MousePrice == Num(299900)

\* addItem('Laptop', 999.99, q) and addItem('Mouse', 29.99, q), q in 1 .. MaxQty
QuickStartInputs ==
    ({Str(Laptop)} \X {NumV(LaptopPrice)} \X Quantities)
        \cup ({Str(Mouse)} \X {NumV(MousePrice)} \X Quantities)

\* "SAVE10", "save10", " Save10\t", "SAVE20", "save20 ", "SAVEX", " ", ""
\* and the number 10
CodeInputs ==
    {Str(SAVE10),
     Str(<<"s", "a", "v", "e", "1", "0">>),
     Str(<<" ", "S", "a", "v", "e", "1", "0", "\t">>),
     Str(SAVE20),
     Str(<<"s", "a", "v", "e", "2", "0", " ">>),
     Str(<<"S", "A", "V", "E", "X">>),
     Str(<<" ">>),
     Str(<<>>),
     NumV(Int2Num(10))}

(***************************************************************************)
(* The state machine: one cart and the last call made on it.               *)
(***************************************************************************)
cart == Cart(items, appliedDiscount)

Call(op, product, price, quantity, code, ret) ==
    [op |-> op, product |-> product, price |-> price, quantity |-> quantity,
     code |-> code, ret |-> ret]

\* The model stops a stored quantity at MaxQty (and at MaxBig * 10^21).
WithinBounds(c) ==
    \A i \in 1..Len(c.items) :
        /\ c.items[i].quantity.lo <= MaxQty * Scale
        /\ c.items[i].quantity.hi <= MaxBig * HiPerE21

\* What a query returned: the value, and for an array of objects what each
\* object is (NewObjects).
Returned(value, objects) == [value |-> value, objects |-> objects]

\* Nothing is kept of what the methods that are not queries return beyond
\* call.ret.
NoValue == Returned(<<>>, <<>>)

\* constructor(): this.#items = new Map(); this.#appliedDiscount = 0
constructor == Cart(<<>>, Zero)

Init ==
    /\ items = <<>>
    /\ appliedDiscount = Zero
    /\ call = Call("new", Undefined, Undefined, Undefined, Undefined, "undefined")
    /\ returned = NoValue

AddItem ==
    \E in \in AddItemInputs :
        LET r == addItem(cart, in[1], in[2], in[3])
        IN  /\ WithinBounds(r.cart)
            /\ items' = r.cart.items
            /\ appliedDiscount' = r.cart.appliedDiscount
            /\ call' = Call("addItem", in[1], in[2], in[3], Undefined, r.ret)
            /\ returned' = NoValue

RemoveItem ==
    \E product \in ProductInputs :
        LET r == removeItem(cart, product)
        IN  /\ WithinBounds(r.cart)
            /\ items' = r.cart.items
            /\ appliedDiscount' = r.cart.appliedDiscount
            /\ call' = Call("removeItem", product, Undefined, Undefined, Undefined, r.ret)
            /\ returned' = NoValue

UpdateQuantity ==
    \E in \in UpdateQuantityInputs :
        LET r == updateQuantity(cart, in[1], in[2])
        IN  /\ WithinBounds(r.cart)
            /\ items' = r.cart.items
            /\ appliedDiscount' = r.cart.appliedDiscount
            /\ call' = Call("updateQuantity", in[1], Undefined, in[2], Undefined, r.ret)
            /\ returned' = NoValue

ApplyDiscount ==
    \E code \in CodeInputs :
        LET r == applyDiscount(cart, code)
        IN  /\ WithinBounds(r.cart)
            /\ items' = r.cart.items
            /\ appliedDiscount' = r.cart.appliedDiscount
            /\ call' = Call("applyDiscount", Undefined, Undefined, Undefined, code, r.ret)
            /\ returned' = NoValue

ClearCart ==
    LET r == clearCart(cart)
    IN  /\ WithinBounds(r.cart)
        /\ items' = r.cart.items
        /\ appliedDiscount' = r.cart.appliedDiscount
        /\ call' = Call("clearCart", Undefined, Undefined, Undefined, Undefined, r.ret)
        /\ returned' = NoValue

GetSubtotal ==
    LET r == query(cart, "getSubtotal")
    IN  /\ items' = r.cart.items
        /\ appliedDiscount' = r.cart.appliedDiscount
        /\ call' = Call("getSubtotal", Undefined, Undefined, Undefined, Undefined, "value")
        /\ returned' = Returned(r.ret, <<>>)

GetDiscount ==
    LET r == query(cart, "getDiscount")
    IN  /\ items' = r.cart.items
        /\ appliedDiscount' = r.cart.appliedDiscount
        /\ call' = Call("getDiscount", Undefined, Undefined, Undefined, Undefined, "value")
        /\ returned' = Returned(r.ret, <<>>)

GetTax ==
    LET r == query(cart, "getTax")
    IN  /\ items' = r.cart.items
        /\ appliedDiscount' = r.cart.appliedDiscount
        /\ call' = Call("getTax", Undefined, Undefined, Undefined, Undefined, "value")
        /\ returned' = Returned(r.ret, <<>>)

GetTotal ==
    LET r == query(cart, "getTotal")
    IN  /\ items' = r.cart.items
        /\ appliedDiscount' = r.cart.appliedDiscount
        /\ call' = Call("getTotal", Undefined, Undefined, Undefined, Undefined, "value")
        /\ returned' = Returned(r.ret, <<>>)

GetItemCount ==
    LET r == query(cart, "getItemCount")
    IN  /\ items' = r.cart.items
        /\ appliedDiscount' = r.cart.appliedDiscount
        /\ call' = Call("getItemCount", Undefined, Undefined, Undefined, Undefined, "value")
        /\ returned' = Returned(r.ret, <<>>)

GetSummary ==
    LET r == query(cart, "getSummary")
    IN  /\ items' = r.cart.items
        /\ appliedDiscount' = r.cart.appliedDiscount
        /\ call' = Call("getSummary", Undefined, Undefined, Undefined, Undefined, "value")
        /\ returned' = Returned(r.ret, <<>>)

GetCartItems ==
    LET r == query(cart, "getCartItems")
    IN  /\ items' = r.cart.items
        /\ appliedDiscount' = r.cart.appliedDiscount
        /\ call' = Call("getCartItems", Undefined, Undefined, Undefined, Undefined, "value")
        /\ returned' = Returned(r.ret, NewObjects(r.ret))

\* What the caller assigns to a property of an entry of the returned array.
CallerWrites ==
    {[field |-> "product",   value |-> Str(<<"Z">>)],
     [field |-> "price",     value |-> NumV(Num(-340))],
     [field |-> "quantity",  value |-> NumV(Zero)]}

\* The properties of a details object of the map.
DetailsFields == {"price", "quantity"}

\* The caller assigns to a property of an entry of the array getCartItems()
\* has just returned.  An assignment to an object reaches the cart only if
\* the object is the details object of a stored entry.  The model follows one
\* assignment for each returned array.
WriteReturnedEntry ==
    /\ call.op = "getCartItems"
    /\ \E k \in 1..Len(returned.value), w \in CallerWrites :
           LET stored == returned.objects[k]
               written == IF w.value.t = "string" THEN w.value.s ELSE w.value.n
           IN  /\ returned' = [returned EXCEPT !.value[k][w.field] = written]
               /\ items' = IF stored # 0 /\ w.field \in DetailsFields
                           THEN [items EXCEPT ![stored][w.field] = written]
                           ELSE items
               /\ appliedDiscount' = appliedDiscount
               /\ call' = Call("write",
                               IF w.field = "product" THEN w.value ELSE Undefined,
                               IF w.field = "price" THEN w.value ELSE Undefined,
                               IF w.field = "quantity" THEN w.value ELSE Undefined,
                               Undefined, "undefined")

\* The caller takes the last entry off the array getCartItems() has just
\* returned.  The array is one made by that call (const items = []); the cart
\* holds a Map and keeps no array.
PopReturned ==
    /\ call.op = "getCartItems"
    /\ returned.value # <<>>
    /\ returned' = Returned(SubSeq(returned.value, 1, Len(returned.value) - 1),
                            SubSeq(returned.objects, 1, Len(returned.objects) - 1))
    /\ items' = items
    /\ appliedDiscount' = appliedDiscount
    /\ call' = Call("pop", Undefined, Undefined, Undefined, Undefined, "value")

Next ==
    \/ AddItem
    \/ RemoveItem
    \/ UpdateQuantity
    \/ ApplyDiscount
    \/ ClearCart
    \/ GetSubtotal
    \/ GetDiscount
    \/ GetTax
    \/ GetTotal
    \/ GetCartItems
    \/ GetItemCount
    \/ GetSummary
    \/ WriteReturnedEntry
    \/ PopReturned

Spec == Init /\ [][Next]_vars

(***************************************************************************)
(* The Quick Start of the README: the same cart, called with the README's  *)
(* products and prices.                                                    *)
(***************************************************************************)
AddQuickStartItem ==
    \E in \in QuickStartInputs :
        LET r == addItem(cart, in[1], in[2], in[3])
        IN  /\ WithinBounds(r.cart)
            /\ items' = r.cart.items
            /\ appliedDiscount' = r.cart.appliedDiscount
            /\ call' = Call("addItem", in[1], in[2], in[3], Undefined, r.ret)
            /\ returned' = NoValue

QuickStartNext ==
    \/ AddQuickStartItem
    \/ ApplyDiscount
    \/ GetTotal
    \/ ClearCart

QuickStart == Init /\ [][QuickStartNext]_vars

(***************************************************************************)
(* Properties.                                                             *)
(***************************************************************************)
ItemMutations == {"addItem", "removeItem", "updateQuantity"}

\* a step that is a call of op (call' records the call the step makes)
Called(op) == call'.op = op

\* C1: the applied discount amount changes only through a successful
\* applyDiscount or through clearCart: every addItem, removeItem and
\* updateQuantity call, successful or failed, leaves it exactly as it was.
C1_DiscountFrame ==
    [][/\ call'.op \in ItemMutations => appliedDiscount' = appliedDiscount
       /\ appliedDiscount' # appliedDiscount =>
              \/ Called("applyDiscount") /\ call'.ret = "true"
              \/ Called("clearCart")]_vars

\* A successful item mutation has left the cart with a discount that is
\* neither zero nor the discount either code would give on the present
\* subtotal: the amount comes from an earlier subtotal.
C1_Witness ==
    /\ call.op \in ItemMutations
    /\ call.ret = "true"
    /\ appliedDiscount # Zero
    /\ \A code \in DOMAIN DISCOUNT_CODES :
           appliedDiscount # Mul(getSubtotal(cart), DISCOUNT_CODES[code])

\* C2: in every reachable state getTotal() is
\* round2(round2(subtotal - discount) + round2((subtotal - discount) * 0.10)),
\* the sum of the separately rounded post-discount amount and tax.
C2_TotalComposition ==
    LET subtotal == getSubtotal(cart)
        discounted == Sub(subtotal, appliedDiscount)
    IN  getTotal(cart)
            = Round2(Add(Round2(discounted), Round2(Mul(discounted, TAX_RATE))))

\* the cart a step leaves behind
cartAfter == Cart(items', appliedDiscount')

CartUnchanged == items' = items /\ appliedDiscount' = appliedDiscount

\* the entries of an item map, as a set
Entries(its) == {its[i] : i \in 1..Len(its)}

\* a usable product name: a string that is not empty
IsProductName(v) == v.t = "string" /\ v.s # <<>>

\* a number below zero
IsNegative(v) == v.t = "number" /\ ~v.n.nan /\ (v.n.hi < 0 \/ v.n.lo < 0)

\* an integer above zero (a number without a fractional part)
IsPositiveInteger(v) ==
    /\ v.t = "number"
    /\ ~v.n.nan
    /\ v.n.lo % Scale = 0
    /\ v.n.hi >= 0
    /\ v.n.lo >= 0
    /\ v.n.hi + v.n.lo > 0

\* the quantity an addItem call asks for: 1 when the argument is omitted
AskedQuantity(v) == IF v.t = "undefined" THEN NumV(Int2Num(1)) ELSE v

\* C3: addItem with an empty or non-string product, a negative or non-number
\* price, a quantity <= 0 or a non-integer quantity returns false and leaves
\* the cart unchanged, also when the named product is already in the cart.
C3_Offending(product, price, quantity) ==
    \/ ~IsProductName(product)
    \/ price.t # "number"
    \/ IsNegative(price)
    \/ ~IsPositiveInteger(AskedQuantity(quantity))

ExactSum(a, b) == [nan |-> FALSE, hi |-> a.hi + b.hi, lo |-> a.lo + b.lo]

\* C4: for every product name, price >= 0 and integer quantity >= 1, addItem
\* returns true; a new product raises getItemCount() by one and is stored
\* with the given price and quantity; a product already in the cart keeps
\* getItemCount() and its stored quantity grows by exactly the quantity.
C4_WellFormed(product, price, quantity) ==
    /\ IsProductName(product)
    /\ price.t = "number"
    /\ ~price.n.nan
    /\ ~IsNegative(price)
    /\ IsPositiveInteger(AskedQuantity(quantity))

C4_Effect(product, price, quantity) ==
    /\ call'.ret = "true"
    /\ Has(items', product.s)
    /\ IF Has(items, product.s)
       THEN /\ getItemCount(cartAfter) = getItemCount(cart)
            /\ Get(items', product.s).quantity
                   = ExactSum(Get(items, product.s).quantity, quantity.n)
       ELSE /\ getItemCount(cartAfter) = getItemCount(cart) + 1
            /\ Get(items', product.s).price = price.n
            /\ Get(items', product.s).quantity = quantity.n

C4_AddItemEffect ==
    [][Called("addItem")
           /\ C4_WellFormed(call'.product, call'.price, call'.quantity)
       => C4_Effect(call'.product, call'.price, AskedQuantity(call'.quantity))]_vars

\* C4 for quantities below 10^21, stored and asked.
C4_BelowE21 ==
    [][Called("addItem")
           /\ C4_WellFormed(call'.product, call'.price, call'.quantity)
           /\ AskedQuantity(call'.quantity).n.hi = 0
           /\ (\A e \in Entries(items) : e.quantity.hi = 0)
       => C4_Effect(call'.product, call'.price, AskedQuantity(call'.quantity))]_vars

\* C5: when addItem succeeds for a product already in the cart, the stored
\* unit price of that product is unchanged whatever price the call passes,
\* and the price and quantity of every other product are unchanged.
C5_FirstWriteWins ==
    [][Called("addItem") /\ call'.ret = "true" /\ Has(items, call'.product.s)
       => /\ Get(items', call'.product.s).price = Get(items, call'.product.s).price
          /\ \A e \in Entries(items) :
                 e.product # call'.product.s => e \in Entries(items')
          /\ \A e \in Entries(items') :
                 e.product # call'.product.s => e \in Entries(items)]_vars

\* A successful addItem passed a price other than the one stored for its
\* product, which therefore was in the cart before, next to another product.
C5_Witness ==
    /\ call.op = "addItem"
    /\ call.ret = "true"
    /\ Get(items, call.product.s).price # call.price.n
    /\ Len(items) = 2

\* C6: removeItem and updateQuantity called with a product that is not in
\* the cart, or with an empty or non-string product, return false and leave
\* the cart unchanged.
C6_UnknownProductRejected ==
    [][(Called("removeItem") \/ Called("updateQuantity"))
           /\ (~IsProductName(call'.product) \/ ~Has(items, call'.product.s))
       => call'.ret = "false" /\ CartUnchanged]_vars

\* updateQuantity was refused for a well-formed call whose product is absent
\* from a cart that holds another product and a discount.
C6_Witness ==
    /\ call.op = "updateQuantity"
    /\ call.ret = "false"
    /\ IsProductName(call.product)
    /\ IsPositiveInteger(call.quantity)
    /\ ~Has(items, call.product.s)
    /\ items # <<>>
    /\ appliedDiscount # Zero

\* C7: updateQuantity on a product in the cart with a positive integer
\* quantity returns true and sets that product's quantity to exactly the
\* given value, leaving its price and every other product unchanged; with a
\* zero, negative or non-integer quantity it returns false and changes
\* nothing (quantity 0 does not remove the product).
C7_UpdateQuantity ==
    [][Called("updateQuantity") /\ IsProductName(call'.product)
           /\ Has(items, call'.product.s)
       => IF IsPositiveInteger(call'.quantity)
          THEN /\ call'.ret = "true"
               /\ Len(items') = Len(items)
               /\ \A i \in 1..Len(items) :
                      /\ items'[i].product = items[i].product
                      /\ items'[i].price = items[i].price
                      /\ items'[i].quantity
                             = IF items[i].product = call'.product.s
                               THEN call'.quantity.n
                               ELSE items[i].quantity
               /\ appliedDiscount' = appliedDiscount
          ELSE call'.ret = "false" /\ CartUnchanged]_vars

\* updateQuantity has set a product to the quantity 1, which no increment of
\* a stored quantity yields, in a cart that holds another product.
C7_Witness ==
    /\ call.op = "updateQuantity"
    /\ call.ret = "true"
    /\ call.quantity.n = Int2Num(1)
    /\ Get(items, call.product.s).quantity = Int2Num(1)
    /\ Len(items) = 2

\* C8: removeItem on a product in the cart returns true and deletes exactly
\* that entry: getItemCount() drops by one, the product no longer appears in
\* getCartItems(), and every other product keeps its price and quantity.
C8_RemoveItem ==
    [][Called("removeItem") /\ IsProductName(call'.product)
           /\ Has(items, call'.product.s)
       => /\ call'.ret = "true"
          /\ getItemCount(cartAfter) = getItemCount(cart) - 1
          /\ \A e \in Entries(getCartItems(cartAfter)) :
                 e.product # call'.product.s
          /\ \A e \in Entries(getCartItems(cart)) :
                 e.product # call'.product.s
                     => e \in Entries(getCartItems(cartAfter))]_vars

\* removeItem has taken one product out of a cart that still holds the other.
C8_Witness ==
    /\ call.op = "removeItem"
    /\ call.ret = "true"
    /\ Len(items) = 1
    /\ items[1].product # call.product.s

\* the spellings of the two codes the callers use
Save10Spellings ==
    {Str(SAVE10),
     Str(<<"s", "a", "v", "e", "1", "0">>),
     Str(<<" ", "S", "a", "v", "e", "1", "0", "\t">>)}

Save20Spellings ==
    {Str(SAVE20),
     Str(<<"s", "a", "v", "e", "2", "0", " ">>)}

\* 10% for SAVE10, 20% for SAVE20
C9_Percentage(code) == IF code \in Save10Spellings THEN Num(1000) ELSE Num(2000)

\* C9: a successful applyDiscount(code) sets the applied discount amount to
\* the current subtotal times the percentage of the code (SAVE10 10%, SAVE20
\* 20%) and returns true for these codes; the amount depends on the current
\* subtotal and the code only, so a second code overwrites the first.
C9_ApplyDiscount ==
    [][Called("applyDiscount")
       => /\ call'.code \in Save10Spellings \cup Save20Spellings
                 => call'.ret = "true"
          /\ call'.ret = "true"
                 => /\ call'.code \in Save10Spellings \cup Save20Spellings
                    /\ appliedDiscount'
                           = Mul(getSubtotal(cart), C9_Percentage(call'.code))
                    /\ items' = items]_vars

\* SAVE20 has been applied to a cart with a nonzero subtotal.
C9_Witness ==
    /\ call.op = "applyDiscount"
    /\ call.ret = "true"
    /\ call.code \in Save20Spellings
    /\ Greater(getSubtotal(cart), Zero)
    /\ appliedDiscount = Mul(getSubtotal(cart), Num(2000))

\* C10: discount codes are matched without regard to case and to surrounding
\* white space: from the same cart, every spelling of a code returns the same
\* boolean and yields the same discount amount.
C10_SpellingsAgree ==
    [][Called("applyDiscount")
       => \A spellings \in {Save10Spellings, Save20Spellings} :
              call'.code \in spellings
                  => \A other \in spellings :
                         /\ applyDiscount(cart, other).ret = call'.ret
                         /\ applyDiscount(cart, other).cart.appliedDiscount
                                = appliedDiscount']_vars

\* The spelling " Save10" followed by a tab has been applied and has given a
\* discount on a nonzero subtotal.
C10_Witness ==
    /\ call.op = "applyDiscount"
    /\ call.code = Str(<<" ", "S", "a", "v", "e", "1", "0", "\t">>)
    /\ call.ret = "true"
    /\ Greater(appliedDiscount, Zero)

\* C11: applyDiscount with a code that is not a spelling of SAVE10 or SAVE20
\* (an unknown code, a blank or empty string, a value that is not a string)
\* returns false and leaves the applied discount amount and the items as
\* they were, also when a discount had been applied before.
C11_BadCodeRejected ==
    [][(Called("applyDiscount")
           /\ call'.code \notin Save10Spellings \cup Save20Spellings)
       => call'.ret = "false" /\ CartUnchanged]_vars

\* The unknown code SAVEX has been refused on a cart that holds a discount.
C11_Witness ==
    /\ call.op = "applyDiscount"
    /\ call.code = Str(<<"S", "A", "V", "E", "X">>)
    /\ call.ret = "false"
    /\ items # <<>>
    /\ Greater(appliedDiscount, Zero)

\* C12: after clearCart(), whatever the cart held, getItemCount() is 0 and
\* getDiscount() is 0.
C12_ClearCart ==
    [][Called("clearCart")
       => /\ getItemCount(cartAfter) = 0
          /\ getDiscount(cartAfter) = Zero]_vars

\* clearCart has been called and the cart reports no items and no discount.
C12_Witness ==
    /\ call.op = "clearCart"
    /\ call.ret = "undefined"
    /\ getItemCount(cart) = 0
    /\ getDiscount(cart) = Zero

\* the tax the claims state: 10% of the subtotal less the applied discount
\* amount, rounded to cents
TaxOnDiscounted == Round2(Mul(Sub(getSubtotal(cart), appliedDiscount), Num(1000)))

\* C13: in every reachable state getTax() is round2((getSubtotal() - applied
\* discount amount) * 0.10), the tax on the amount after the discount, and
\* that is the value a call of getTax() returns.
C13_TaxOnDiscountedAmount ==
    /\ getTax(cart) = TaxOnDiscounted
    /\ call.op = "getTax" => returned.value = TaxOnDiscounted

\* getTax() has returned the tax of a cart with a discount, and the tax on
\* the subtotal would have been another amount.
C13_Witness ==
    /\ call.op = "getTax"
    /\ Greater(appliedDiscount, Zero)
    /\ getSubtotal(cart).hi = 0
    /\ appliedDiscount.hi = 0
    /\ ~returned.value.nan
    /\ returned.value = TaxOnDiscounted
    /\ returned.value # Round2(Mul(getSubtotal(cart), Num(1000)))

\* the one line 'Cart is empty'
EmptyCartMessage == <<Line("Cart is empty", <<>>)>>

\* C14: whenever the cart is empty (getItemCount() is 0), getSubtotal(),
\* getDiscount(), getTax() and getTotal() are 0, getCartItems() is the empty
\* list and getSummary() is the empty-cart message.
C14_EmptyCartDefaults ==
    getItemCount(cart) = 0
        => /\ getSubtotal(cart) = Zero
           /\ getDiscount(cart) = Zero
           /\ getTax(cart) = Zero
           /\ getTotal(cart) = Zero
           /\ getCartItems(cart) = <<>>
           /\ getSummary(cart) = EmptyCartMessage

\* C15: in every reachable state getTotal() is (getSubtotal() -
\* getDiscount()) + getTax(), taken on the rounded values the three getters
\* return.
C15_TotalOfGetters ==
    getTotal(cart)
        = Add(Sub(getSubtotal(cart), getDiscount(cart)), getTax(cart))

\* the sum of the itemTotal of the first n entries of a getCartItems() list
RECURSIVE SumItemTotals(_, _)
SumItemTotals(list, n) ==
    IF n = 0 THEN Zero
    ELSE Add(SumItemTotals(list, n - 1), list[n].itemTotal)

\* C16: getSubtotal() is the sum of the itemTotal values of the entries that
\* getCartItems() returns.
C16_SubtotalOfItemTotals ==
    getSubtotal(cart)
        = SumItemTotals(getCartItems(cart), Len(getCartItems(cart)))

\* C17: getSubtotal, getDiscount, getTax, getTotal, getCartItems,
\* getItemCount and getSummary have no side effects: a call leaves the items
\* and the applied discount as they were, and the same call made again on
\* the cart it leaves returns the same value and again leaves the cart.
C17_QueriesHaveNoEffect ==
    [][call'.op \in Queries
       => /\ CartUnchanged
          /\ query(cartAfter, call'.op).ret = returned'.value
          /\ query(cartAfter, call'.op).cart = cartAfter]_vars

\* getSummary() has returned the summary of a cart with an item and a
\* discount.
C17_Witness ==
    /\ call.op = "getSummary"
    /\ items # <<>>
    /\ Greater(getDiscount(cart), Zero)
    /\ returned.value = getSummary(cart)
    /\ returned.value # EmptyCartMessage

\* C18: getCartItems() returns copies: an assignment to the product, price
\* or quantity of a returned entry, and taking an entry off the
\* returned list, leave the stored items and the discount as they were, so
\* getCartItems(), getSubtotal() and getTotal() return afterwards what they
\* returned before; the stored items change in addItem, removeItem,
\* updateQuantity and clearCart only.
C18_ReturnedCopies ==
    [][/\ call'.op \in {"write", "pop"}
           => /\ CartUnchanged
              /\ getCartItems(cartAfter) = getCartItems(cart)
              /\ getSubtotal(cartAfter) = getSubtotal(cart)
              /\ getTotal(cartAfter) = getTotal(cart)
       /\ items' # items
           => call'.op \in {"addItem", "removeItem", "updateQuantity",
                            "clearCart"}]_vars

\* The caller has set the price of a returned entry to -0.034; the array it
\* holds differs from what getCartItems() returns now.
C18_Witness ==
    /\ call.op = "write"
    /\ call.price = NumV(Num(-340))
    /\ items # <<>>
    /\ returned.value # getCartItems(cart)
    /\ \E k \in 1..Len(returned.value) : returned.value[k].price = Num(-340)

\* C19: after any sequence of calls every stored line item has a unit price
\* >= 0 and an integer quantity >= 1.
C19_StoredItemsValid ==
    \A i \in 1..Len(items) :
        /\ LessEq(Zero, items[i].price)
        /\ IsInteger(items[i].quantity)
        /\ LessEq(Int2Num(1), items[i].quantity)

\* the four methods that report with a boolean
BooleanMethods == {"addItem", "removeItem", "updateQuantity", "applyDiscount"}

\* an argument list of a call that breaks a precondition of the method
C20_Malformed ==
    \/ call.op = "addItem"
           /\ C3_Offending(call.product, call.price, call.quantity)
    \/ call.op \in {"removeItem", "updateQuantity"}
           /\ ~IsProductName(call.product)
    \/ call.op = "updateQuantity" /\ ~IsPositiveInteger(call.quantity)
    \/ call.op = "applyDiscount"
           /\ call.code \notin Save10Spellings \cup Save20Spellings

QuickStartCart ==
    /\ items = <<[product |-> Laptop, price |-> LaptopPrice,
                  quantity |-> Int2Num(1)],
                 [product |-> Mouse, price |-> MousePrice,
                  quantity |-> Int2Num(2)]>>
    /\ appliedDiscount = Mul(getSubtotal(cart), DISCOUNT_CODES[SAVE10])

C22_DiscountWithinSubtotal ==
    (~getSubtotal(cart).nan /\ ~appliedDiscount.nan)
        => /\ LessEq(appliedDiscount, getSubtotal(cart))
           /\ LessEq(Zero, getTax(cart))
           /\ LessEq(Zero, getTotal(cart))

\* the product names of a getCartItems() list, in its order
ProductsOf(list) == [i \in 1..Len(list) |-> list[i].product]

\* a list of names without the name x
Without(names, x) == SelectSeq(names, LAMBDA y : y # x)

\* every name of the list is there once
OneEntryEach(names) ==
    \A i \in 1..Len(names) : \A j \in 1..(i - 1) : names[i] # names[j]

\* the keys of the map, in the order of the map
StoredProducts(its) == [i \in 1..Len(its) |-> its[i].product]

\* what C23 states of a step from the keys before to the keys after
C23_Step(before, after) ==
    CASE call'.op = "addItem" /\ call'.ret = "true"
           -> /\ OneEntryEach(after)
              /\ after = IF \E i \in 1..Len(before) : before[i] = call'.product.s
                         THEN before
                         ELSE Append(before, call'.product.s)
      [] call'.op = "removeItem"
           -> after = Without(before, call'.product.s)
      [] call'.op = "clearCart" -> after = <<>>
      [] OTHER -> after = before

\* C23: getCartItems() lists one entry for each stored product, in insertion
\* order: in every state its products are the keys of the map in the order
\* of the map, and in that order a product that addItem finds missing (never
\* added, or removed before) goes last, an addItem of a product in the cart
\* and updateQuantity keep every position, and removeItem takes the product
\* out and keeps the order of the others.
C23_InsertionOrder ==
    /\ [](ProductsOf(getCartItems(cart)) = StoredProducts(items))
    /\ [][C23_Step(StoredProducts(items), StoredProducts(items'))]_vars

\* addItem has just put product A, with the quantity of the call, behind
\* product B, and getCartItems() lists B first and A second.
C23_Witness ==
    /\ call.op = "addItem"
    /\ call.ret = "true"
    /\ call.product = Str(ProductA)
    /\ call.quantity = NumV(Int2Num(2))
    /\ ProductsOf(getCartItems(cart)) = <<ProductB, ProductA>>
    /\ getCartItems(cart)[2].quantity = Int2Num(2)

\* C24: clearCart() returns the cart to its initial state: the cart it
\* leaves is the cart the constructor makes, every query returns on it what
\* it returns on a new cart, and every next call of addItem or applyDiscount
\* ends as it ends on a new cart.
C24_ClearCartRestoresNew ==
    [][Called("clearCart")
       => /\ cartAfter = constructor
          /\ \A method \in Queries :
                 query(cartAfter, method).ret = query(constructor, method).ret
          /\ \A in \in AddItemInputs :
                 addItem(cartAfter, in[1], in[2], in[3])
                     = addItem(constructor, in[1], in[2], in[3])
          /\ \A code \in CodeInputs :
                 applyDiscount(cartAfter, code) = applyDiscount(constructor, code)]_vars

\* clearCart has been called and has left the cart of the constructor, with
\* the summary of an empty cart and a total of 0.
C24_Witness ==
    /\ call.op = "clearCart"
    /\ cart = constructor
    /\ getSummary(cart) = EmptyCartMessage
    /\ getTotal(cart) = Zero

\* the number a string "<digits>.<two digits>", with or without a sign, writes
DigitValue(c) == CHOOSE d \in 0..9 : DigitChar(d) = c

RECURSIVE DigitsValue(_)
DigitsValue(s) ==
    IF s = <<>> THEN 0
    ELSE DigitsValue(SubSeq(s, 1, Len(s) - 1)) * 10 + DigitValue(s[Len(s)])

AmountOf(chars) ==
    LET neg == chars[1] = "-"
        body == IF neg THEN Tail(chars) ELSE chars
        n == Len(body)
        cents == DigitsValue(SubSeq(body, 1, n - 3)) * 100
                     + DigitsValue(SubSeq(body, n - 1, n))
    IN  Num((IF neg THEN -1 ELSE 1) * cents * (Scale \div 100))

\* the summary has one line of this template, and the line carries the value
\* v: its text reads back as v, for NaN and for the amounts of the order of
\* 10^21 it is the text toFixed(2) writes
Carries(summary, template, v) ==
    /\ Cardinality({i \in 1..Len(summary) : summary[i].template = template}) = 1
    /\ \A i \in 1..Len(summary) :
           summary[i].template = template
               => /\ Len(summary[i].args) = 1
                  /\ IF v.nan \/ v.hi # 0
                     THEN summary[i].args[1] = toFixed(v)
                     ELSE /\ summary[i].args[1][Len(summary[i].args[1]) - 2] = "."
                          /\ AmountOf(summary[i].args[1]) = v

HasDiscountLine(summary) ==
    \E i \in 1..Len(summary) : summary[i].template = "Discount: -$${discount}"

====
